---------------------------- MODULE Spec2Model ----------------------------
(***************************************************************************)
(* DocuMate-AI backend: the tool-using agent loop                          *)
(* (GeminiAgentService.invoke_agent) and its caller, the /agent-query      *)
(* handler (agent_query).                                                  *)
(*                                                                         *)
(* One agent run is a coroutine.  It suspends at every await: the four     *)
(* chat.send_message_async calls (lines 123, 152, 165, 178) and the tool   *)
(* call (line 148).  pc[r] names the await the run is suspended at, or the *)
(* statement it resumes with:                                              *)
(*   "request"           agent_query has been called, nothing ran yet      *)
(*   "send_query"        awaiting send_message_async(user_query)   (123)   *)
(*   "loop"              top of `while True` with a response       (128)   *)
(*   "tool"              awaiting the registered tool coroutine  (148)   *)
(*   "send_tool_output"  awaiting the send of the tool output      (152)   *)
(*   "send_tool_error"   awaiting the send of the error message    (165)   *)
(*   "send_unknown"      awaiting the send of the unknown-tool text (178)  *)
(*   "check"             the history-length check                  (198)   *)
(*   "done"              invoke_agent returned a result                    *)
(*   "raised"            an exception left invoke_agent                    *)
(*   "responded"         agent_query answered the HTTP request             *)
(*   "idle"              no request                                        *)
(*                                                                         *)
(* The chat session (google.generativeai ChatSession) is a library object: *)
(* a completed send_message_async appends the sent turn and the model's    *)
(* turn to chat.history; a failed one raises and appends nothing.  A turn  *)
(* of the history keeps the role, the part type and, for a model turn,     *)
(* the whole response; the text of a sent part is kept in `outgoing` only. *)
(***************************************************************************)
EXTENDS Integers, Sequences, FiniteSets, TLC

VARIABLES
    pc,                  \* [Runs -> label]
    document_id,         \* [Runs -> id]       invoke_agent's document_id
    history,             \* [Runs -> Seq(turn)] chat.history
    response,            \* [Runs -> response] the local `response`
    tool_calls_history,  \* [Runs -> Seq(record)]
    tool_args,           \* [Runs -> args]     the dict passed to the tool
    outgoing,            \* [Runs -> message]  argument of the pending send
    lastExec,            \* [Runs -> call]     the tool call being/last executed
    result,              \* [Runs -> dict]     invoke_agent's return value
    exc,                 \* [Runs -> exception] what left invoke_agent
    http,                \* [Runs -> HTTP response of agent_query]
    conversations,       \* Seq(turn): the 'conversations' table
    repertoire,          \* the calls the text-generation model asks for
    \* the direct handlers, the tools and the retriever
    handler,             \* [Runs -> name]     the entry point that is running
    question,            \* [Runs -> text]     request.question / request.query
    top_k,               \* [Runs -> Nat]      get_relevant_chunks' top_k
    query_embedding,     \* [Runs -> vector]
    relevant_chunks,     \* [Runs -> Seq(chunk_text)]
    answer_text,         \* [Runs -> text]     the local `answer` of ask_question
    called,              \* [Runs -> Seq(name)] collaborators called so far
    fault,               \* [Runs -> SUBSET name] the failures of the request
    tool_output,         \* [Runs -> string]   what a tool coroutine returned
    document_chunks,     \* the 'document_chunks' table: a set of rows
    \* DocumentProcessor.chunk_text
    text, max_tokens, overlap_tokens,
    tokenizer,           \* TRUE iff self.tokenizer is not None
    chunks,              \* the returned list
    chunk_pc,            \* "input" before the call, "output" after it
    \* upload_pdf
    storage,             \* the paths of the objects in the 'documents' bucket
    documents,           \* the 'documents' table: a set of rows
    upload_summary,      \* the local `summary`
    raw_entities,        \* what extract_entities returned
    processed_entities,  \* the list built at lines 96-112
    chunk_data_to_insert, \* the list built at lines 125-132
    uploads              \* the number of upload requests received

ragVars == <<handler, question, top_k, query_embedding, relevant_chunks,
             answer_text, called, fault, tool_output, document_chunks>>

chunkVars == <<text, max_tokens, overlap_tokens, tokenizer, chunks, chunk_pc>>

uploadVars == <<storage, documents, upload_summary, raw_entities,
                processed_entities, chunk_data_to_insert, uploads>>

\* what only the agent loop uses
agentVars == <<history, response, tool_calls_history, tool_args, outgoing,
               lastExec, result, repertoire>>

vars == <<pc, document_id, history, response, tool_calls_history, tool_args,
          outgoing, lastExec, result, exc, http, conversations, repertoire,
          ragVars, chunkVars, uploadVars>>

----------------------------------------------------------------------------
(* Bounds of the model *)

NumRuns == 1
Runs == 1..NumRuns

\* Guard on the length of tool_calls_history.  The loop as written logs at
\* most MaxTurns \div 2 calls, so the guard never disables a step of it; it
\* only keeps a loop that fails to stop finite.
MaxToolCalls == 10

----------------------------------------------------------------------------
(* Program constants *)

\* gemini_agent_service.py:198   if len(chat.history) > 20
MaxTurns == 20

UserQuery == "What does the document say?"
UserId == "dummy-user"

CouldNotProcess == "I couldn't process that request fully. Please try again."
TooLong == "I'm having trouble processing this request. The conversation became too long."

\* self.tools: name -> the parameters of the registered coroutine
ToolNames == {"get_document_summary", "get_document_entities",
              "semantic_search_document"}

ToolParams(name) ==
    IF name = "semantic_search_document"
    THEN {"document_id", "query"}
    ELSE {"document_id"}

None == [kind |-> "none"]
NoArgs == [k \in {} |-> ""]

----------------------------------------------------------------------------
(* What the model may answer, what a request may carry *)

DocIds == {"doc-42", "doc-7"}

MkArgs(keys, doc) ==
    [k \in keys |-> IF k = "document_id" THEN doc ELSE "population of Paris"]

Call(name, args) ==
    [kind |-> "function_call", name |-> name, args |-> args, text |-> ""]

Text(t) == [kind |-> "text", name |-> "", args |-> NoArgs, text |-> t]

\* The calls the model asks for: registered tools with a document_id of the
\* model's own, a registered tool without document_id, a tool not registered.
ModelCalls ==
    { Call("get_document_summary", MkArgs({"document_id"}, "doc-7")),
      Call("get_document_entities", NoArgs),
      Call("semantic_search_document", MkArgs({"document_id", "query"}, "doc-7")),
      Call("web_search", MkArgs({"document_id"}, "doc-7")) }

\* One conversation draws its calls, in any order and any number, from two
\* of them.
Repertoires == {S \in SUBSET ModelCalls : \E a, b \in ModelCalls : a # b /\ S = {a, b}}

FinalResponses ==
    { Text("Paris has 2 million inhabitants."),
      Text(""),
      [kind |-> "no_candidates", name |-> "", args |-> NoArgs, text |-> ""],
      [kind |-> "no_parts", name |-> "", args |-> NoArgs, text |-> ""] }

ModelResponses(calls) == calls \cup FinalResponses

NoResponse == [kind |-> "unset", name |-> "", args |-> NoArgs, text |-> ""]

ToolOutcomes == {"found", "not_found", "failed"}

----------------------------------------------------------------------------
(* Helpers *)

\* a message handed to chat.send_message_async
TextMessage(content) ==
    [kind |-> "text", name |-> "", content |-> content]

FunctionResponse(name, content) ==
    [kind |-> "function_response", name |-> name, content |-> content]

NoMessage == [kind |-> "none", name |-> "", content |-> <<>>]

\* f"Error executing tool '{tool_name}': {e}"
ErrorExecuting(name, e) == <<"Error executing tool", name, e>>

\* f"Agent tried to call unknown tool: {tool_name}"
UnknownToolError(name) == <<"Agent tried to call unknown tool", name>>

\* the string a tool returns (the tools catch their own failures)
ToolResult(name, args, outcome) ==
    CASE outcome = "found"     -> <<"result", name, args["document_id"]>>
      [] outcome = "not_found" -> <<"No result found", name, args["document_id"]>>
      [] outcome = "failed"    -> <<"Error", name, args["document_id"]>>

UserTurn(msg) == [role |-> "user", kind |-> msg.kind, name |-> msg.name,
                  args |-> NoArgs, text |-> ""]

ModelTurn(resp) == [role |-> "model", kind |-> resp.kind, name |-> resp.name,
                    args |-> resp.args, text |-> resp.text]

\* one chat session kept on the service and used by every invocation
AppendToServiceChat(h, msg, resp) ==
    history[1] \o <<UserTurn(msg), ModelTurn(resp)>>

\* ChatSession.send_message_async, on success
AppendExchange(h, msg, resp) == h \o <<UserTurn(msg), ModelTurn(resp)>>

\* line 129: response.candidates and response.candidates[0].content.parts
HasParts(resp) == resp.kind \notin {"no_candidates", "no_parts"}

\* line 133: part.function_call
IsFunctionCall(resp) == resp.kind = "function_call"

\* no registry lookup: every name is dispatched
AnyToolRegistered(name) == TRUE

\* line 141: tool_name in self.tools
IsRegistered(name) == name \in ToolNames

\* the model's document_id is left as it came
KeepModelDocumentId(args, doc) == args

\* lines 144-145
OverrideDocumentId(args, doc) ==
    IF "document_id" \in DOMAIN args
    THEN [k \in DOMAIN args |-> IF k = "document_id" THEN doc ELSE args[k]]
    ELSE args

\* line 148: **tool_args binds iff it names exactly the tool's parameters
Binds(name, args) == DOMAIN args = ToolParams(name)

\* the limit compared one exchange later
LoopBoundTwoLater(h) == Len(h) > MaxTurns + 2

\* the length of the list the chat was started with, not of chat.history
LoopBoundOfFreshList(h) == Len(<<>>) > MaxTurns

\* line 198
LoopBoundExceeded(h) == Len(h) > MaxTurns

SendStates == {"send_query", "send_tool_output", "send_tool_error", "send_unknown"}

Return(r, answer) ==
    /\ pc' = [pc EXCEPT ![r] = "done"]
    /\ result' = [result EXCEPT ![r] =
                    [kind |-> "result", answer |-> answer,
                     tool_calls |-> tool_calls_history[r],
                     final_prompt |-> history[r]]]

NoResult == [kind |-> "none", answer |-> "", tool_calls |-> <<>>,
             final_prompt |-> <<>>]

NoHttp == [status |-> 0, answer |-> "", detail |-> <<>>]

----------------------------------------------------------------------------
(* The parts of the state a specification does not use *)

\* no embedding computed yet
NoVector == -1

\* no tool has returned or raised yet
NoToolOutput == [kind |-> "none", value |-> <<>>]

\* the retrieval handlers' variables while none of them runs
RagIdle ==
    /\ handler = [r \in Runs |-> "none"]
    /\ question = [r \in Runs |-> ""]
    /\ top_k = [r \in Runs |-> 0]
    /\ query_embedding = [r \in Runs |-> NoVector]
    /\ relevant_chunks = [r \in Runs |-> <<>>]
    /\ answer_text = [r \in Runs |-> "unset"]
    /\ called = [r \in Runs |-> <<>>]
    /\ fault = [r \in Runs |-> {}]
    /\ tool_output = [r \in Runs |-> NoToolOutput]

\* chunk_text's variables while it is not called
ChunkIdle ==
    /\ text = <<>>
    /\ max_tokens = 0
    /\ overlap_tokens = 0
    /\ tokenizer = TRUE
    /\ chunks = <<>>
    /\ chunk_pc = "idle"

\* upload_pdf's variables while no upload runs, on an empty store
UploadIdle ==
    /\ storage = {}
    /\ documents = {}
    /\ upload_summary = ""
    /\ raw_entities = <<>>
    /\ processed_entities = <<>>
    /\ chunk_data_to_insert = <<>>
    /\ uploads = 0

\* the agent loop's variables while no agent runs
AgentIdle ==
    /\ history = [r \in Runs |-> <<>>]
    /\ response = [r \in Runs |-> NoResponse]
    /\ tool_calls_history = [r \in Runs |-> <<>>]
    /\ tool_args = [r \in Runs |-> NoArgs]
    /\ outgoing = [r \in Runs |-> NoMessage]
    /\ lastExec = [r \in Runs |-> None]
    /\ result = [r \in Runs |-> NoResult]
    /\ repertoire = {}

----------------------------------------------------------------------------
(* Initial state: one pending /agent-query request *)

Init ==
    /\ pc = [r \in Runs |-> IF r = 1 THEN "request" ELSE "idle"]
    /\ document_id \in [Runs -> DocIds]
    /\ history = [r \in Runs |-> <<>>]
    /\ response = [r \in Runs |-> NoResponse]
    /\ tool_calls_history = [r \in Runs |-> <<>>]
    /\ tool_args = [r \in Runs |-> NoArgs]
    /\ outgoing = [r \in Runs |-> NoMessage]
    /\ lastExec = [r \in Runs |-> None]
    /\ result = [r \in Runs |-> NoResult]
    /\ exc = [r \in Runs |-> "none"]
    /\ http = [r \in Runs |-> NoHttp]
    /\ conversations = <<>>
    /\ repertoire \in Repertoires
    /\ RagIdle
    /\ document_chunks = {}
    /\ ChunkIdle
    /\ UploadIdle

----------------------------------------------------------------------------
(* agent_query / invoke_agent *)

\* main.py:229, gemini_agent_service.py:120-125
AgentQuery(r) ==
    /\ pc[r] = "request"
    /\ pc' = [pc EXCEPT ![r] = "send_query"]
    /\ history' = [history EXCEPT ![r] = <<>>]
    /\ outgoing' = [outgoing EXCEPT ![r] = TextMessage(UserQuery)]
    /\ tool_calls_history' = [tool_calls_history EXCEPT ![r] = <<>>]
    /\ UNCHANGED <<document_id, response, tool_args, lastExec, result, exc,
                   http, conversations,
                   repertoire, ragVars, chunkVars, uploadVars>>

\* a send_message_async completes: the model answered
SendCompletes(r) ==
    /\ pc[r] \in SendStates
    /\ \E resp \in ModelResponses(repertoire) :
          /\ history' = [history EXCEPT ![r] =
                            AppendExchange(history[r], outgoing[r], resp)]
          /\ response' = [response EXCEPT ![r] = resp]
    /\ pc' = [pc EXCEPT ![r] = IF pc[r] = "send_query" THEN "loop" ELSE "check"]
    /\ outgoing' = [outgoing EXCEPT ![r] = NoMessage]
    /\ UNCHANGED <<document_id, tool_calls_history, tool_args, lastExec,
                   result, exc, http, conversations,
                   repertoire, ragVars, chunkVars, uploadVars>>

\* the send of the tool output (line 152) fails inside the try: lines 162-174
SendFailsInTry(r) ==
    /\ pc[r] = "send_tool_output"
    /\ pc' = [pc EXCEPT ![r] = "send_tool_error"]
    /\ outgoing' = [outgoing EXCEPT ![r] =
                      FunctionResponse(response[r].name,
                          ErrorExecuting(response[r].name, "GenerationError"))]
    /\ UNCHANGED <<document_id, history, response, tool_calls_history,
                   tool_args, lastExec, result, exc, http, conversations,
                   repertoire, ragVars, chunkVars, uploadVars>>

\* a send outside the try (lines 123, 165, 178) fails: nothing catches it
SendRaises(r) ==
    /\ pc[r] \in SendStates \ {"send_tool_output"}
    /\ pc' = [pc EXCEPT ![r] = "raised"]
    /\ exc' = [exc EXCEPT ![r] = "GenerationError"]
    /\ outgoing' = [outgoing EXCEPT ![r] = NoMessage]
    /\ UNCHANGED <<document_id, history, response, tool_calls_history,
                   tool_args, lastExec, result, http, conversations,
                   repertoire, ragVars, chunkVars, uploadVars>>

\* lines 188-195
NoContent(r) ==
    /\ pc[r] = "loop"
    /\ ~HasParts(response[r])
    /\ Return(r, CouldNotProcess)
    /\ UNCHANGED <<document_id, history, response, tool_calls_history,
                   tool_args, outgoing, lastExec, exc, http, conversations,
                   repertoire, ragVars, chunkVars, uploadVars>>

\* lines 179-187
FinalText(r) ==
    /\ pc[r] = "loop"
    /\ HasParts(response[r])
    /\ ~IsFunctionCall(response[r])
    /\ Return(r, response[r].text)
    /\ UNCHANGED <<document_id, history, response, tool_calls_history,
                   tool_args, outgoing, lastExec, exc, http, conversations,
                   repertoire, ragVars, chunkVars, uploadVars>>

\* lines 133-139 then 141-148: a registered tool whose arguments bind.
\* The record appended at line 139 holds the dict that line 145 updates.
DispatchTool(r) ==
    LET name == response[r].name
        args == OverrideDocumentId(response[r].args, document_id[r])
    IN  /\ pc[r] = "loop"
        /\ HasParts(response[r])
        /\ IsFunctionCall(response[r])
        /\ Len(tool_calls_history[r]) < MaxToolCalls
        /\ IsRegistered(name)
        /\ Binds(name, args)
        /\ tool_calls_history' = [tool_calls_history EXCEPT ![r] =
                                    Append(@, [tool |-> name, args |-> args])]
        /\ tool_args' = [tool_args EXCEPT ![r] = args]
        /\ lastExec' = [lastExec EXCEPT ![r] =
                          [kind |-> "call", name |-> name, args |-> args]]
        /\ pc' = [pc EXCEPT ![r] = "tool"]
        /\ UNCHANGED <<document_id, history, response, outgoing, result, exc,
                       http, conversations,
                   repertoire, ragVars, chunkVars, uploadVars>>

\* the call at line 148 without the try/except around it
DispatchRaises(r) ==
    LET name == response[r].name
        args == OverrideDocumentId(response[r].args, document_id[r])
    IN  /\ pc[r] = "loop"
        /\ HasParts(response[r])
        /\ IsFunctionCall(response[r])
        /\ Len(tool_calls_history[r]) < MaxToolCalls
        /\ IsRegistered(name)
        /\ ~Binds(name, args)
        /\ tool_calls_history' = [tool_calls_history EXCEPT ![r] =
                                    Append(@, [tool |-> name, args |-> args])]
        /\ tool_args' = [tool_args EXCEPT ![r] = args]
        /\ exc' = [exc EXCEPT ![r] = "TypeError"]
        /\ pc' = [pc EXCEPT ![r] = "raised"]
        /\ UNCHANGED <<document_id, history, response, lastExec, result,
                       outgoing, http, conversations, repertoire, ragVars, chunkVars, uploadVars>>

\* lines 133-148 then 162-174: the call raises TypeError, no tool body runs
DispatchFails(r) ==
    LET name == response[r].name
        args == OverrideDocumentId(response[r].args, document_id[r])
    IN  /\ pc[r] = "loop"
        /\ HasParts(response[r])
        /\ IsFunctionCall(response[r])
        /\ Len(tool_calls_history[r]) < MaxToolCalls
        /\ IsRegistered(name)
        /\ ~Binds(name, args)
        /\ tool_calls_history' = [tool_calls_history EXCEPT ![r] =
                                    Append(@, [tool |-> name, args |-> args])]
        /\ tool_args' = [tool_args EXCEPT ![r] = args]
        /\ outgoing' = [outgoing EXCEPT ![r] =
                          FunctionResponse(name, ErrorExecuting(name, "TypeError"))]
        /\ pc' = [pc EXCEPT ![r] = "send_tool_error"]
        /\ UNCHANGED <<document_id, history, response, lastExec, result, exc,
                       http, conversations,
                   repertoire, ragVars, chunkVars, uploadVars>>

\* the record appended only for registered tools
UnknownToolUnlogged(r) ==
    LET name == response[r].name
        args == response[r].args
    IN  /\ pc[r] = "loop"
        /\ HasParts(response[r])
        /\ IsFunctionCall(response[r])
        /\ ~IsRegistered(name)
        /\ tool_args' = [tool_args EXCEPT ![r] = args]
        /\ outgoing' = [outgoing EXCEPT ![r] = TextMessage(UnknownToolError(name))]
        /\ pc' = [pc EXCEPT ![r] = "send_unknown"]
        /\ UNCHANGED <<document_id, history, response, lastExec, result, exc,
                       tool_calls_history, http, conversations, repertoire, ragVars, chunkVars, uploadVars>>

\* lines 133-139 then 175-178
UnknownTool(r) ==
    LET name == response[r].name
        args == response[r].args
    IN  /\ pc[r] = "loop"
        /\ HasParts(response[r])
        /\ IsFunctionCall(response[r])
        /\ Len(tool_calls_history[r]) < MaxToolCalls
        /\ ~IsRegistered(name)
        /\ tool_calls_history' = [tool_calls_history EXCEPT ![r] =
                                    Append(@, [tool |-> name, args |-> args])]
        /\ tool_args' = [tool_args EXCEPT ![r] = args]
        /\ outgoing' = [outgoing EXCEPT ![r] = TextMessage(UnknownToolError(name))]
        /\ pc' = [pc EXCEPT ![r] = "send_unknown"]
        /\ UNCHANGED <<document_id, history, response, lastExec, result, exc,
                       http, conversations,
                   repertoire, ragVars, chunkVars, uploadVars>>

\* line 148 resumes with the tool's string, lines 149-152
ToolReturns(r) ==
    /\ pc[r] = "tool"
    /\ \E outcome \in ToolOutcomes :
          outgoing' = [outgoing EXCEPT ![r] =
                         FunctionResponse(lastExec[r].name,
                             ToolResult(lastExec[r].name, lastExec[r].args, outcome))]
    /\ pc' = [pc EXCEPT ![r] = "send_tool_output"]
    /\ UNCHANGED <<document_id, history, response, tool_calls_history,
                   tool_args, lastExec, result, exc, http, conversations,
                   repertoire, ragVars, chunkVars, uploadVars>>

\* lines 198-204
LimitReached(r) ==
    /\ pc[r] = "check"
    /\ LoopBoundExceeded(history[r])
    /\ Return(r, TooLong)
    /\ UNCHANGED <<document_id, history, response, tool_calls_history,
                   tool_args, outgoing, lastExec, exc, http, conversations,
                   repertoire, ragVars, chunkVars, uploadVars>>

\* line 198 false: back to line 128
LoopAgain(r) ==
    /\ pc[r] = "check"
    /\ ~LoopBoundExceeded(history[r])
    /\ pc' = [pc EXCEPT ![r] = "loop"]
    /\ UNCHANGED <<document_id, history, response, tool_calls_history,
                   tool_args, outgoing, lastExec, result, exc, http,
                   conversations,
                   repertoire, ragVars, chunkVars, uploadVars>>

\* main.py:232-238 with supabase_service.py:256-265
SaveAndRespond(r) ==
    /\ pc[r] = "done"
    /\ conversations' = Append(conversations,
          [user_id |-> UserId, document_id |-> document_id[r],
           user_message |-> UserQuery, ai_response |-> result[r].answer])
    /\ http' = [http EXCEPT ![r] =
                  [status |-> 200, answer |-> result[r].answer, detail |-> <<>>]]
    /\ pc' = [pc EXCEPT ![r] = "responded"]
    /\ UNCHANGED <<document_id, history, response, tool_calls_history,
                   tool_args, outgoing, lastExec, result, exc,
                   repertoire, ragVars, chunkVars, uploadVars>>

\* supabase_service.py:266-268 then main.py:239-244
SaveFails(r) ==
    /\ pc[r] = "done"
    /\ http' = [http EXCEPT ![r] =
                  [status |-> 500, answer |-> "",
                   detail |-> <<"Failed to process agent query", "StoreError">>]]
    /\ pc' = [pc EXCEPT ![r] = "responded"]
    /\ UNCHANGED <<document_id, history, response, tool_calls_history,
                   tool_args, outgoing, lastExec, result, exc, conversations,
                   repertoire, ragVars, chunkVars, uploadVars>>

\* main.py:239-244 after invoke_agent raised
AgentQueryError(r) ==
    /\ pc[r] = "raised"
    /\ http' = [http EXCEPT ![r] =
                  [status |-> 500, answer |-> "",
                   detail |-> <<"Failed to process agent query", exc[r]>>]]
    /\ pc' = [pc EXCEPT ![r] = "responded"]
    /\ UNCHANGED <<document_id, history, response, tool_calls_history,
                   tool_args, outgoing, lastExec, result, exc, conversations,
                   repertoire, ragVars, chunkVars, uploadVars>>

\* invoke_agent alone: from the call at main.py:229 to its return or raise
AgentNext ==
    \E r \in Runs :
        \/ AgentQuery(r)
        \/ SendCompletes(r)
        \/ SendFailsInTry(r)
        \/ SendRaises(r)
        \/ NoContent(r)
        \/ FinalText(r)
        \/ DispatchTool(r)
        \/ DispatchFails(r)
        \/ UnknownTool(r)
        \/ ToolReturns(r)
        \/ LimitReached(r)
        \/ LoopAgain(r)

\* the rest of agent_query
HandlerNext ==
    \E r \in Runs :
        \/ SaveAndRespond(r)
        \/ SaveFails(r)
        \/ AgentQueryError(r)

Next == AgentNext \/ HandlerNext

Spec == Init /\ [][Next]_vars

\* every await of a run resumes, every resumed run goes on to its next await
FairInit == Init /\ document_id = [r \in Runs |-> "doc-42"]

FairSpec == FairInit /\ [][AgentNext]_vars /\ WF_vars(AgentNext)

----------------------------------------------------------------------------
(* The agent loop: bound on the history *)

\* C1 as stated: a run never accumulates more than 20 history turns; DONE is
\* forced before the history holds a 21st turn.
C1_AtMostTwentyTurns ==
    \A r \in Runs : Len(history[r]) <= MaxTurns

\* C1, amended: a run never accumulates more than 22 history turns, and a
\* history of more than 20 turns is seen only by the length check, which
\* forces DONE with the fixed 'conversation became too long' answer.
C1_HistoryBounded ==
    \A r \in Runs :
        /\ Len(history[r]) <= MaxTurns + 2
        /\ Len(history[r]) > MaxTurns =>
              \/ pc[r] = "check"
              \/ /\ pc[r] \in {"done", "responded"}
                 /\ result[r].answer = TooLong

C1_Witness ==
    \E r \in Runs :
        /\ pc[r] = "done"
        /\ Len(history[r]) = MaxTurns + 2
        /\ result[r].answer = TooLong

\* C2: whatever the model answers and whatever the tools return, a run that
\* was started eventually returns, unless a model exchange fails (the only
\* way a run raises).
C2_Returns ==
    \A r \in Runs : (pc[r] = "request") ~> (pc[r] = "done" \/ pc[r] = "raised")

C2_Witness ==
    \E r \in Runs :
        /\ pc[r] = "done"
        /\ Len(tool_calls_history[r]) >= 3
        /\ \E i, j \in 1..Len(tool_calls_history[r]) :
              /\ tool_calls_history[r][i].tool \in ToolNames
              /\ tool_calls_history[r][j].tool \notin ToolNames

----------------------------------------------------------------------------
(* The agent loop: the document a tool runs on *)

\* C3: every tool a run executes is called with document_id equal to the
\* run's own document_id, whatever id the model put in the arguments.
C3_ToolRunsOnCallerDocument ==
    \A r \in Runs :
        lastExec[r].kind = "call" =>
            /\ "document_id" \in DOMAIN lastExec[r].args
            /\ lastExec[r].args["document_id"] = document_id[r]

C3_Witness ==
    \E r \in Runs :
        /\ pc[r] = "tool"
        /\ lastExec[r].kind = "call"
        /\ response[r].args["document_id"] # document_id[r]

\* C4 as stated: when the model asks for a registered tool and its arguments
\* hold no document_id, the loop puts the run's document_id into them and the
\* tool is executed with it.
C4_InjectsMissingDocumentId ==
    \A r \in Runs :
        ( /\ pc[r] \in {"tool", "send_tool_error"}
          /\ response[r].kind = "function_call"
          /\ response[r].name \in ToolNames
          /\ "document_id" \notin DOMAIN response[r].args )
        => /\ pc[r] = "tool"
           /\ "document_id" \in DOMAIN tool_args[r]
           /\ tool_args[r]["document_id"] = document_id[r]
           /\ lastExec[r].args = tool_args[r]

----------------------------------------------------------------------------
(* The agent loop: how it ends *)

\* C5 as stated: whenever the model's response is plain text with no tool
\* call, the run returns exactly that text, with the tool-call record and the
\* full history.
C5_TextIsReturned ==
    \A r \in Runs :
        (pc[r] = "done" /\ response[r].kind = "text" /\ response[r].text # "") =>
            /\ result[r].answer = response[r].text
            /\ result[r].tool_calls = tool_calls_history[r]
            /\ result[r].final_prompt = history[r]

\* C6: a call to a tool that is not registered executes no tool, raises
\* nothing and returns nothing: the run goes on to await the model's
\* response to the 'unknown tool' message it sends as a text turn.
C6_UnknownToolFeedsBack ==
    [][\A r \in Runs :
          ( /\ pc[r] = "loop"
            /\ response[r].kind = "function_call"
            /\ response[r].name \notin ToolNames
            /\ pc'[r] # pc[r] )
          => /\ pc'[r] = "send_unknown"
             /\ outgoing'[r] = TextMessage(UnknownToolError(response[r].name))
             /\ lastExec'[r] = lastExec[r]
             /\ result'[r] = result[r]
             /\ exc'[r] = "none"]_vars

C6_Witness ==
    \E r \in Runs :
        /\ pc[r] = "send_unknown"
        /\ response[r].name = "web_search"
        /\ outgoing[r] = TextMessage(UnknownToolError("web_search"))
        /\ lastExec[r] = None

\* C7 as stated: a failure of the text-generation backend on a model call of
\* the loop is never raised out of invoke_agent and never shown to the user.
C7_FailureNeverSurfaces ==
    \A r \in Runs :
        /\ pc[r] # "raised"
        /\ http[r].detail # <<"Failed to process agent query", "GenerationError">>

\* C8: a failure of the tool dispatch never leaves invoke_agent.  Arguments
\* that do not match the tool's parameters become the 'Error executing tool'
\* string, sent as the tool's function response; whatever a tool body does,
\* failure included, comes back as a string sent the same way; in both cases
\* the run awaits the model's next response.
C8_DispatchFailureFedBack ==
    [][\A r \in Runs :
          /\ ( /\ pc[r] = "loop"
               /\ response[r].kind = "function_call"
               /\ response[r].name \in ToolNames
               /\ DOMAIN response[r].args # ToolParams(response[r].name)
               /\ pc'[r] # pc[r] )
             => /\ pc'[r] = "send_tool_error"
                /\ outgoing'[r] = FunctionResponse(response[r].name,
                       ErrorExecuting(response[r].name, "TypeError"))
                /\ exc'[r] = "none"
                /\ lastExec'[r] = lastExec[r]
          /\ (pc[r] = "tool" /\ pc'[r] # pc[r])
             => /\ pc'[r] = "send_tool_output"
                /\ outgoing'[r].kind = "function_response"
                /\ outgoing'[r].name = response[r].name
                /\ exc'[r] = "none"]_vars

C8_Witness ==
    \E r \in Runs :
        /\ pc[r] = "send_tool_error"
        /\ response[r].name = "get_document_entities"
        /\ outgoing[r] = FunctionResponse("get_document_entities",
              ErrorExecuting("get_document_entities", "TypeError"))

\* C9 as stated: a response with no text and no tool call (no candidates, no
\* parts, or a part with empty text and no function call) ends the run with
\* the fixed 'couldn't process' answer and the tool-call record so far.
C9_NoTextNoCallIsCouldNotProcess ==
    \A r \in Runs :
        ( /\ pc[r] = "done"
          /\ \/ response[r].kind \in {"no_candidates", "no_parts"}
             \/ response[r].kind = "text" /\ response[r].text = "" )
        => /\ result[r].answer = CouldNotProcess
           /\ result[r].tool_calls = tool_calls_history[r]

----------------------------------------------------------------------------
(* The agent loop: the tool-call record *)

\* the function calls the model made, in the order of the chat history
CallTurns(h) == SelectSeq(h, LAMBDA t : t.role = "model" /\ t.kind = "function_call")

\* the last response is a call the loop has not processed (yet, or at all)
LastCallUnprocessed(r) ==
    /\ response[r].kind = "function_call"
    /\ \/ pc[r] \in {"loop", "check"}
       \/ pc[r] \in {"done", "responded"} /\ result[r].answer = TooLong

ProcessedCalls(r) ==
    LET calls == CallTurns(history[r])
    IN  IF LastCallUnprocessed(r) THEN SubSeq(calls, 1, Len(calls) - 1) ELSE calls

\* C10: tool_calls_history holds one record per call the loop processed, in
\* the order of the calls, for unknown tools and failed calls too; the record
\* names the tool and maps the call's argument names (document_id to the
\* run's document for a registered tool); the list only grows at its end, and
\* it is the list the run returns.
C10_ToolCallsRecord ==
    /\ [](\A r \in Runs :
            LET calls == ProcessedCalls(r)
                log == tool_calls_history[r]
            IN  /\ Len(log) = Len(calls)
                /\ \A i \in 1..Len(log) :
                      /\ log[i].tool = calls[i].name
                      /\ DOMAIN log[i].args = DOMAIN calls[i].args
                      /\ \A k \in DOMAIN log[i].args :
                            log[i].args[k] =
                              IF k = "document_id" /\ calls[i].name \in ToolNames
                              THEN document_id[r] ELSE calls[i].args[k]
                /\ pc[r] = "done" => result[r].tool_calls = log)
    /\ [][\A r \in Runs :
            /\ Len(tool_calls_history'[r]) >= Len(tool_calls_history[r])
            /\ SubSeq(tool_calls_history'[r], 1, Len(tool_calls_history[r]))
                 = tool_calls_history[r]]_vars

C10_Witness ==
    \E r \in Runs :
        /\ pc[r] = "done"
        /\ \E i, j \in 1..Len(result[r].tool_calls) :
              /\ i < j
              /\ result[r].tool_calls[i].tool = "web_search"
              /\ result[r].tool_calls[j].tool = "get_document_entities"

----------------------------------------------------------------------------
(* DocumentProcessor.chunk_text (document_processor.py:23-60)              *)
(*                                                                         *)
(* A text is a sequence of characters.  The tokenizer is a library: here   *)
(* its vocabulary is the single characters, encode maps a character to its *)
(* token id and decode maps the id back.  A chunk is a text, as in the     *)
(* code: the decoded tokens, or the words joined by one space.             *)

\* Bounds
MaxTextLen == 4
MaxChunkTokens == 3

Space == " "
Chars == {"a", "b", Space}

Texts == UNION {[1..n -> Chars] : n \in 0..MaxTextLen}

\* self.tokenizer.encode / decode
TokenOf(c) == CASE c = "a" -> 64 [] c = "b" -> 65 [] c = Space -> 220
CharOf(t) == CASE t = 64 -> "a" [] t = 65 -> "b" [] t = 220 -> Space
Encode(txt) == [i \in 1..Len(txt) |-> TokenOf(txt[i])]
Decode(toks) == [i \in 1..Len(toks) |-> CharOf(toks[i])]

\* nothing is carried over into the next chunk
DropCarryOver(lst, n) == <<>>

\* Python's lst[-n:]
SliceFromMinus(lst, n) ==
    IF n = 0 THEN lst
    ELSE IF n > 0
         THEN SubSeq(lst, (IF Len(lst) > n THEN Len(lst) - n ELSE 0) + 1, Len(lst))
         ELSE SubSeq(lst, (IF Len(lst) > -n THEN -n ELSE Len(lst)) + 1, Len(lst))

\* Python's int(n / 5), n >= 0
IntDivFive(n) == n \div 5

\* str.split(): the maximal runs of non-whitespace characters
RECURSIVE SplitFrom(_, _, _, _)
SplitFrom(txt, i, word, words) ==
    IF i > Len(txt)
    THEN IF word = <<>> THEN words ELSE Append(words, word)
    ELSE IF txt[i] = Space
         THEN SplitFrom(txt, i + 1, <<>>,
                        IF word = <<>> THEN words ELSE Append(words, word))
         ELSE SplitFrom(txt, i + 1, Append(word, txt[i]), words)

Split(txt) == SplitFrom(txt, 1, <<>>, <<>>)

\* " ".join(words)
RECURSIVE Join(_)
Join(words) ==
    IF words = <<>> THEN <<>>
    ELSE IF Len(words) = 1 THEN words[1]
    ELSE words[1] \o <<Space>> \o Join(Tail(words))

\* lines 37-41, from the i-th word on
RECURSIVE WordLoop(_, _, _, _, _, _)
WordLoop(words, i, current_chunk_words, out, m, o) ==
    IF i > Len(words)
    THEN \* lines 42-44
         IF current_chunk_words # <<>>
         THEN Append(out, Join(current_chunk_words))
         ELSE out
    ELSE LET cur == Append(current_chunk_words, words[i])
         IN  IF Len(cur) > m
             THEN WordLoop(words, i + 1, SliceFromMinus(cur, IntDivFive(o)),
                           Append(out, Join(cur)), m, o)
             ELSE WordLoop(words, i + 1, cur, out, m, o)

\* lines 50-55, from the i-th token on
RECURSIVE TokenLoop(_, _, _, _, _, _)
TokenLoop(tokens, i, current_chunk_tokens, out, m, o) ==
    IF i > Len(tokens)
    THEN \* lines 57-60
         IF current_chunk_tokens # <<>>
         THEN Append(out, Decode(current_chunk_tokens))
         ELSE out
    ELSE LET cur == Append(current_chunk_tokens, tokens[i])
         IN  IF Len(cur) >= m
             THEN TokenLoop(tokens, i + 1, SliceFromMinus(cur, o),
                            Append(out, Decode(cur)), m, o)
             ELSE TokenLoop(tokens, i + 1, cur, out, m, o)

\* lines 23-60
ChunkText(txt, m, o, tok) ==
    IF txt = <<>> THEN <<>>
    ELSE IF ~tok THEN WordLoop(Split(txt), 1, <<>>, <<>>, m, o)
    ELSE TokenLoop(Encode(txt), 1, <<>>, <<>>, m, o)

\* a call chunk_text(text, max_tokens, overlap_tokens) with
\* 0 <= overlap_tokens < max_tokens, with or without a tokenizer
ChunkInit ==
    /\ text \in Texts
    /\ max_tokens \in 1..MaxChunkTokens
    /\ overlap_tokens \in 0..(MaxChunkTokens - 1)
    /\ overlap_tokens < max_tokens
    /\ tokenizer \in BOOLEAN
    /\ chunks = <<>>
    /\ chunk_pc = "input"
    /\ pc = [r \in Runs |-> "idle"]
    /\ document_id = [r \in Runs |-> "doc-42"]
    /\ exc = [r \in Runs |-> "none"]
    /\ http = [r \in Runs |-> NoHttp]
    /\ conversations = <<>>
    /\ AgentIdle
    /\ RagIdle
    /\ document_chunks = {}
    /\ UploadIdle

CallChunkText ==
    /\ chunk_pc = "input"
    /\ chunks' = ChunkText(text, max_tokens, overlap_tokens, tokenizer)
    /\ chunk_pc' = "output"
    /\ UNCHANGED <<text, max_tokens, overlap_tokens, tokenizer>>
    /\ UNCHANGED <<pc, document_id, exc, http, conversations, agentVars, ragVars,
                   uploadVars>>

ChunkNext == CallChunkText

ChunkSpec == ChunkInit /\ [][ChunkNext]_vars

\* the tokens of a chunk: tokenizer tokens, or whitespace-delimited words
TokensIn(chunk) == IF tokenizer THEN Encode(chunk) ELSE Split(chunk)

\* C15 as stated: with 0 <= overlap_tokens < max_tokens every chunk holds at
\* most max_tokens tokens (tokenizer tokens, or words in the fallback mode).
C15_ChunksWithinMaxTokens ==
    chunk_pc = "output" =>
        \A i \in 1..Len(chunks) : Len(TokensIn(chunks[i])) <= max_tokens

\* chunk 1 followed by every later chunk without its first o tokens
RECURSIVE Reassemble(_, _, _)
Reassemble(cs, i, o) ==
    IF i > Len(cs) THEN <<>>
    ELSE (IF i = 1 THEN Encode(cs[i])
          ELSE SubSeq(Encode(cs[i]), o + 1, Len(cs[i])))
         \o Reassemble(cs, i + 1, o)

\* C16 as stated: in tokenizer mode with overlap_tokens < max_tokens, each
\* chunk after the first begins with exactly the last overlap_tokens tokens
\* of the chunk before it, followed only by tokens that come after that
\* chunk in the text: chunk 1 followed by the later chunks without their
\* first overlap_tokens tokens is the token sequence of the text.
C16_OverlapAndReassembly ==
    (chunk_pc = "output" /\ tokenizer) =>
        /\ \A i \in 2..Len(chunks) :
              /\ Len(chunks[i]) >= overlap_tokens
              /\ Len(chunks[i - 1]) >= overlap_tokens
              /\ SubSeq(Encode(chunks[i]), 1, overlap_tokens)
                   = SubSeq(Encode(chunks[i - 1]),
                            Len(chunks[i - 1]) - overlap_tokens + 1,
                            Len(chunks[i - 1]))
        /\ Reassemble(chunks, 1, overlap_tokens) = Encode(text)

\* C17 as stated: chunk_text returns a non-empty list iff the text is
\* non-empty, in both modes, texts of whitespace only included.
C17_NonEmptyIffTextNonEmpty ==
    chunk_pc = "output" => ((chunks # <<>>) <=> (text # <<>>))

----------------------------------------------------------------------------
(* Retrieval: the document_chunks table, get_embedding, get_relevant_chunks *)
(* (supabase_service.py:218-254, gemini_service.py:92-103)                  *)
(*                                                                          *)
(* An embedding is a point on a line and the distance operator <=> is the   *)
(* distance between two points; similarity is 1 - distance as in the SQL.   *)

\* Bounds
MaxChunks == 2
MaxTopK == 2
MaxEmbedding == 1

Embeddings == 0..MaxEmbedding

Questions == {"What is the notice period?", "Who signed the agreement?"}

\* top_k of the callers: supabase_service.py:218 (the default, used by
\* ask_question), main.py:204, gemini_agent_service.py:108
AskTopK == 5
SearchTopK == 10
ToolTopK == 5

\* the texts upload_pdf stored for a document, by chunk_index + 1
ChunkTextOf ==
    [d \in DocIds |->
        IF d = "doc-42"
        THEN <<"Notice is ninety days.", "Signed by the lessor.",
               "Rent is due monthly.", "Deposits are refundable.">>
        ELSE <<"Chapter one.", "Chapter two.", "Chapter three.",
               "Chapter four.">>]

EmbeddingLists == UNION {[1..n -> Embeddings] : n \in 0..MaxChunks}

\* main.py:124-133: the rows of a document get chunk_index 0, 1, ...
RowsOf(d, embs) ==
    {[document_id |-> d, chunk_index |-> i - 1,
      chunk_text |-> ChunkTextOf[d][i], embedding |-> embs[i]] :
        i \in 1..Len(embs)}

ChunkStores ==
    {UNION {RowsOf(d, f[d]) : d \in DocIds} : f \in [DocIds -> EmbeddingLists]}

\* embedding <=> query_embedding
Distance(e, q) == IF e >= q THEN e - q ELSE q - e

Similarity(e, q) == 1 - Distance(e, q)

\* WHERE document_chunks.document_id = doc_id
RowsOfDocument(store, doc) == {row \in store : row.document_id = doc}

\* ORDER BY document_chunks.embedding <=> query_embedding: every order of
\* the rows in which the distance never decreases; rows at the same
\* distance come in any order
Orderings(rows, q) ==
    {p \in [1..Cardinality(rows) -> rows] :
        /\ \A i, j \in DOMAIN p : i # j => p[i] # p[j]
        /\ \A i, j \in DOMAIN p :
              i < j => Distance(p[i].embedding, q) <= Distance(p[j].embedding, q)}

\* LIMIT match_count
Limit(p, k) == SubSeq(p, 1, IF Len(p) < k THEN Len(p) ELSE k)

\* the result sets the RPC match_document_chunks can return
MatchDocumentChunks(store, q, k, doc) ==
    {Limit(p, k) : p \in Orderings(RowsOfDocument(store, doc), q)}

\* line 249: [item['chunk_text'] for item in data[1]]
ChunkTextsOf(rows) == [i \in 1..Len(rows) |-> rows[i].chunk_text]

----------------------------------------------------------------------------
(* The callers: ask_question, semantic_search (main.py:150-216) and the     *)
(* three tools (gemini_agent_service.py:83-113)                             *)

NoInformation == "I couldn't find relevant information in the document to answer your question. Please try rephrasing or asking a different question."
NoResults == "No relevant results found for your query in this document."
Apology == "I apologize, but I couldn't generate an answer at this time."

\* texts the generation model can answer with
Answers == {"The notice period is ninety days.", "I don't know."}

\* what the documents table holds for a document: a summary and entities,
\* either of which can be missing
Summaries == {"A lease between two parties.", ""}
EntityLists == {<<"ACME Corp", "ORG">>, <<>>}

\* json.dumps of a list
JsonDumps(lst) == <<"[">> \o lst \o <<"]">>

\* sep.join(lst)
RECURSIVE JoinWith(_, _)
JoinWith(sep, lst) ==
    IF lst = <<>> THEN <<>>
    ELSE IF Len(lst) = 1 THEN <<lst[1]>>
    ELSE <<lst[1], sep>> \o JoinWith(sep, Tail(lst))

Returned(value) == [kind |-> "return", value |-> value]
Raised(cause) == [kind |-> "raise", value |-> <<cause>>]

\* a tool without its except clause
ToolPropagates(what, doc, cause) == Raised(cause)

\* lines 91-92, 102-103, 112-113: except Exception as e: return f"Error ..."
ToolExcept(what, doc, cause) ==
    Returned(<<"Error ", what, " for document ID ", doc, ": ", cause>>)

\* a caller that treats an empty list as context
NeverEmpty(cs) == FALSE

\* main.py:168, main.py:206, gemini_agent_service.py:109: not relevant_chunks
NoRelevantChunks(cs) == cs = <<>>

EmbedStates == {"ask_embed", "search_embed", "tool_embed"}
RetrieveStates == {"ask_retrieve", "search_retrieve", "tool_retrieve",
                   "direct_retrieve"}

Ok(body) == [status |-> 200, answer |-> body, detail |-> <<>>]
OkResults(results) ==
    [status |-> 200, answer |-> "", detail |-> <<>>, results |-> results]
InternalServerError(what, cause) ==
    [status |-> 500, answer |-> "", detail |-> <<what, cause>>]

\* the except clause of the caller that is running
Failure(r, cause) ==
    /\ exc' = [exc EXCEPT ![r] = cause]
    /\ pc' = [pc EXCEPT ![r] = "responded"]
    /\ CASE handler[r] = "ask_question" ->
              /\ http' = [http EXCEPT ![r] =
                    InternalServerError("Failed to answer question", cause)]
              /\ UNCHANGED tool_output
         [] handler[r] = "semantic_search" ->
              /\ http' = [http EXCEPT ![r] =
                    InternalServerError("Failed to perform semantic search", cause)]
              /\ UNCHANGED tool_output
         [] handler[r] = "semantic_search_document" ->
              /\ tool_output' = [tool_output EXCEPT ![r] =
                    ToolExcept("performing semantic search", document_id[r], cause)]
              /\ UNCHANGED http
         [] OTHER ->
              /\ tool_output' = [tool_output EXCEPT ![r] = Raised(cause)]
              /\ UNCHANGED http

\* one pending request or call on some store contents
RagInit ==
    /\ pc = [r \in Runs |-> IF r = 1 THEN "rag_request" ELSE "idle"]
    /\ document_id \in [Runs -> DocIds]
    /\ document_chunks \in ChunkStores
    /\ exc = [r \in Runs |-> "none"]
    /\ http = [r \in Runs |-> NoHttp]
    /\ conversations = <<>>
    /\ AgentIdle
    /\ RagIdle
    /\ ChunkIdle
    /\ UploadIdle

\* main.py:151-160
AskQuestion(r) ==
    /\ pc[r] = "rag_request"
    /\ \E q \in Questions : question' = [question EXCEPT ![r] = q]
    /\ handler' = [handler EXCEPT ![r] = "ask_question"]
    /\ top_k' = [top_k EXCEPT ![r] = AskTopK]
    /\ pc' = [pc EXCEPT ![r] = "ask_embed"]
    /\ UNCHANGED <<query_embedding, relevant_chunks, answer_text, called,
                   fault, tool_output, document_chunks>>
    /\ UNCHANGED <<document_id, exc, http, conversations, agentVars, chunkVars, uploadVars>>

\* main.py:190-198
SemanticSearch(r) ==
    /\ pc[r] = "rag_request"
    /\ \E q \in Questions : question' = [question EXCEPT ![r] = q]
    /\ handler' = [handler EXCEPT ![r] = "semantic_search"]
    /\ top_k' = [top_k EXCEPT ![r] = SearchTopK]
    /\ pc' = [pc EXCEPT ![r] = "search_embed"]
    /\ UNCHANGED <<query_embedding, relevant_chunks, answer_text, called,
                   fault, tool_output, document_chunks>>
    /\ UNCHANGED <<document_id, exc, http, conversations, agentVars, chunkVars, uploadVars>>

\* gemini_agent_service.py:104-106
SemanticSearchDocumentTool(r) ==
    /\ pc[r] = "rag_request"
    /\ \E q \in Questions : question' = [question EXCEPT ![r] = q]
    /\ handler' = [handler EXCEPT ![r] = "semantic_search_document"]
    /\ top_k' = [top_k EXCEPT ![r] = ToolTopK]
    /\ pc' = [pc EXCEPT ![r] = "tool_embed"]
    /\ UNCHANGED <<query_embedding, relevant_chunks, answer_text, called,
                   fault, tool_output, document_chunks>>
    /\ UNCHANGED <<document_id, exc, http, conversations, agentVars, chunkVars, uploadVars>>

\* a call get_relevant_chunks(document_id, query_embedding, top_k)
GetRelevantChunks(r) ==
    /\ pc[r] = "rag_request"
    /\ \E q \in Embeddings :
          query_embedding' = [query_embedding EXCEPT ![r] = q]
    /\ \E k \in 1..MaxTopK : top_k' = [top_k EXCEPT ![r] = k]
    /\ handler' = [handler EXCEPT ![r] = "get_relevant_chunks"]
    /\ pc' = [pc EXCEPT ![r] = "direct_retrieve"]
    /\ UNCHANGED <<question, relevant_chunks, answer_text, called,
                   fault, tool_output, document_chunks>>
    /\ UNCHANGED <<document_id, exc, http, conversations, agentVars, chunkVars, uploadVars>>

\* gemini_agent_service.py:84-92: the read of documents.summary returns a
\* row, or the store call raises (no such row, no connection)
GetDocumentSummaryTool(r) ==
    /\ pc[r] = "rag_request"
    /\ handler' = [handler EXCEPT ![r] = "get_document_summary"]
    /\ \/ \E summary \in Summaries :
            /\ tool_output' = [tool_output EXCEPT ![r] =
                  IF summary # ""
                  THEN Returned(<<summary>>)
                  ELSE Returned(<<"No summary found for document ID: ",
                                  document_id[r]>>)]
            /\ UNCHANGED fault
       \/ /\ tool_output' = [tool_output EXCEPT ![r] =
                  ToolExcept("retrieving summary", document_id[r], "StoreError")]
          /\ fault' = [fault EXCEPT ![r] = @ \cup {"StoreError"}]
    /\ called' = [called EXCEPT ![r] = Append(@, "documents.select")]
    /\ pc' = [pc EXCEPT ![r] = "responded"]
    /\ UNCHANGED <<question, top_k, query_embedding, relevant_chunks,
                   answer_text, document_chunks>>
    /\ UNCHANGED <<document_id, exc, http, conversations, agentVars, chunkVars, uploadVars>>

\* gemini_agent_service.py:94-102
GetDocumentEntitiesTool(r) ==
    /\ pc[r] = "rag_request"
    /\ handler' = [handler EXCEPT ![r] = "get_document_entities"]
    /\ \/ \E entities \in EntityLists :
            /\ tool_output' = [tool_output EXCEPT ![r] =
                  IF entities # <<>>
                  THEN Returned(JsonDumps(entities))
                  ELSE Returned(<<"No entities found for document ID: ",
                                  document_id[r]>>)]
            /\ UNCHANGED fault
       \/ /\ tool_output' = [tool_output EXCEPT ![r] =
                  ToolExcept("retrieving entities", document_id[r], "StoreError")]
          /\ fault' = [fault EXCEPT ![r] = @ \cup {"StoreError"}]
    /\ called' = [called EXCEPT ![r] = Append(@, "documents.select")]
    /\ pc' = [pc EXCEPT ![r] = "responded"]
    /\ UNCHANGED <<question, top_k, query_embedding, relevant_chunks,
                   answer_text, document_chunks>>
    /\ UNCHANGED <<document_id, exc, http, conversations, agentVars, chunkVars, uploadVars>>

\* gemini_service.py:94-100: the embedding of the question
EmbedReturns(r) ==
    /\ pc[r] \in EmbedStates
    /\ \E v \in Embeddings :
          query_embedding' = [query_embedding EXCEPT ![r] = v]
    /\ called' = [called EXCEPT ![r] = Append(@, "get_embedding")]
    /\ pc' = [pc EXCEPT ![r] =
                CASE pc[r] = "ask_embed" -> "ask_retrieve"
                  [] pc[r] = "search_embed" -> "search_retrieve"
                  [] pc[r] = "tool_embed" -> "tool_retrieve"]
    /\ UNCHANGED <<handler, question, top_k, relevant_chunks, answer_text,
                   fault, tool_output, document_chunks>>
    /\ UNCHANGED <<document_id, exc, http, conversations, agentVars, chunkVars, uploadVars>>

\* gemini_service.py:101-103: get_embedding prints and re-raises; the
\* caller's except clause runs
EmbedRaises(r) ==
    /\ pc[r] \in EmbedStates
    /\ called' = [called EXCEPT ![r] = Append(@, "get_embedding")]
    /\ fault' = [fault EXCEPT ![r] = @ \cup {"EmbeddingError"}]
    /\ Failure(r, "EmbeddingError")
    /\ UNCHANGED <<handler, question, top_k, query_embedding, relevant_chunks,
                   answer_text, document_chunks>>
    /\ UNCHANGED <<document_id, conversations, agentVars, chunkVars, uploadVars>>

\* the caller's code after get_relevant_chunks returned cs, up to its next await
AfterRetrieval(r, cs) ==
    /\ relevant_chunks' = [relevant_chunks EXCEPT ![r] = cs]
    /\ called' = [called EXCEPT ![r] = Append(@, "get_relevant_chunks")]
    /\ CASE handler[r] = "ask_question" ->
              \* main.py:168-172
              /\ IF NoRelevantChunks(cs)
                 THEN /\ http' = [http EXCEPT ![r] = Ok(NoInformation)]
                      /\ pc' = [pc EXCEPT ![r] = "responded"]
                 ELSE /\ pc' = [pc EXCEPT ![r] = "ask_generate"]
                      /\ UNCHANGED http
              /\ UNCHANGED tool_output
         [] handler[r] = "semantic_search" ->
              \* main.py:206-209
              /\ http' = [http EXCEPT ![r] =
                    IF NoRelevantChunks(cs)
                    THEN OkResults(<<NoResults>>)
                    ELSE OkResults(cs)]
              /\ pc' = [pc EXCEPT ![r] = "responded"]
              /\ UNCHANGED tool_output
         [] handler[r] = "semantic_search_document" ->
              \* gemini_agent_service.py:109-111
              /\ tool_output' = [tool_output EXCEPT ![r] =
                    IF ~NoRelevantChunks(cs)
                    THEN Returned(<<"Relevant sections:\n">>
                                  \o JoinWith("\n---\n", cs))
                    ELSE Returned(<<"No relevant sections found for query '",
                                    question[r], "' in document ID: ",
                                    document_id[r]>>)]
              /\ pc' = [pc EXCEPT ![r] = "responded"]
              /\ UNCHANGED http
         [] OTHER ->
              /\ pc' = [pc EXCEPT ![r] = "responded"]
              /\ UNCHANGED <<http, tool_output>>

\* supabase_service.py:242-250: the RPC returned its rows
RetrieveReturns(r) ==
    /\ pc[r] \in RetrieveStates
    /\ \E rows \in MatchDocumentChunks(document_chunks, query_embedding[r],
                                       top_k[r], document_id[r]) :
          AfterRetrieval(r, ChunkTextsOf(rows))
    /\ UNCHANGED <<handler, question, top_k, query_embedding, answer_text,
                   fault, document_chunks>>
    /\ UNCHANGED <<document_id, exc, conversations, agentVars, chunkVars, uploadVars>>

\* get_relevant_chunks with an except clause that re-raises
RetrieveRaises(r) ==
    /\ pc[r] \in RetrieveStates
    /\ fault' = [fault EXCEPT ![r] = @ \cup {"RetrievalError"}]
    /\ called' = [called EXCEPT ![r] = Append(@, "get_relevant_chunks")]
    /\ Failure(r, "RetrievalError")
    /\ UNCHANGED <<handler, question, top_k, query_embedding, relevant_chunks,
                   answer_text, document_chunks>>
    /\ UNCHANGED <<document_id, conversations, agentVars, chunkVars, uploadVars>>

\* supabase_service.py:251-254: the RPC raised; except returns []
RetrieveFails(r) ==
    /\ pc[r] \in RetrieveStates
    /\ fault' = [fault EXCEPT ![r] = @ \cup {"RetrievalError"}]
    /\ AfterRetrieval(r, <<>>)
    /\ UNCHANGED <<handler, question, top_k, query_embedding, answer_text,
                   document_chunks>>
    /\ UNCHANGED <<document_id, exc, conversations, agentVars, chunkVars, uploadVars>>

\* gemini_service.py:86-87: the model answered with text
GenerateReturns(r) ==
    /\ pc[r] = "ask_generate"
    /\ \E a \in Answers : answer_text' = [answer_text EXCEPT ![r] = a]
    /\ called' = [called EXCEPT ![r] = Append(@, "generate_answer")]
    /\ pc' = [pc EXCEPT ![r] = "ask_save"]
    /\ UNCHANGED <<handler, question, top_k, query_embedding, relevant_chunks,
                   fault, tool_output, document_chunks>>
    /\ UNCHANGED <<document_id, exc, http, conversations, agentVars, chunkVars, uploadVars>>

\* generate_answer without its except clause
GenerateRaises(r) ==
    /\ pc[r] = "ask_generate"
    /\ \E cause \in {"GenerationError", "MalformedResponse"} :
          /\ fault' = [fault EXCEPT ![r] = @ \cup {cause}]
          /\ Failure(r, cause)
    /\ called' = [called EXCEPT ![r] = Append(@, "generate_answer")]
    /\ UNCHANGED <<handler, question, top_k, query_embedding, relevant_chunks,
                   answer_text, document_chunks>>
    /\ UNCHANGED <<document_id, conversations, agentVars, chunkVars, uploadVars>>

\* gemini_service.py:85-90: the call raised, or the response has no
\* candidate or no part (IndexError at line 87); except returns the apology
GenerateFails(r) ==
    /\ pc[r] = "ask_generate"
    /\ \E cause \in {"GenerationError", "MalformedResponse"} :
          fault' = [fault EXCEPT ![r] = @ \cup {cause}]
    /\ answer_text' = [answer_text EXCEPT ![r] = Apology]
    /\ called' = [called EXCEPT ![r] = Append(@, "generate_answer")]
    /\ pc' = [pc EXCEPT ![r] = "ask_save"]
    /\ UNCHANGED <<handler, question, top_k, query_embedding, relevant_chunks,
                   tool_output, document_chunks>>
    /\ UNCHANGED <<document_id, exc, http, conversations, agentVars, chunkVars, uploadVars>>

\* main.py:178-180 with supabase_service.py:256-265
SaveConversation(r) ==
    /\ pc[r] = "ask_save"
    /\ conversations' = Append(conversations,
          [user_id |-> UserId, document_id |-> document_id[r],
           user_message |-> question[r], ai_response |-> answer_text[r]])
    /\ called' = [called EXCEPT ![r] = Append(@, "save_conversation")]
    /\ http' = [http EXCEPT ![r] = Ok(answer_text[r])]
    /\ pc' = [pc EXCEPT ![r] = "responded"]
    /\ UNCHANGED <<handler, question, top_k, query_embedding, relevant_chunks,
                   answer_text, fault, tool_output, document_chunks>>
    /\ UNCHANGED <<document_id, exc, agentVars, chunkVars, uploadVars>>

\* supabase_service.py:266-268 then main.py:182-187
SaveConversationFails(r) ==
    /\ pc[r] = "ask_save"
    /\ called' = [called EXCEPT ![r] = Append(@, "save_conversation")]
    /\ fault' = [fault EXCEPT ![r] = @ \cup {"StoreError"}]
    /\ Failure(r, "StoreError")
    /\ UNCHANGED <<handler, question, top_k, query_embedding, relevant_chunks,
                   answer_text, document_chunks>>
    /\ UNCHANGED <<document_id, conversations, agentVars, chunkVars, uploadVars>>

RagNext ==
    \E r \in Runs :
        \/ AskQuestion(r)
        \/ SemanticSearch(r)
        \/ SemanticSearchDocumentTool(r)
        \/ GetRelevantChunks(r)
        \/ GetDocumentSummaryTool(r)
        \/ GetDocumentEntitiesTool(r)
        \/ EmbedReturns(r)
        \/ EmbedRaises(r)
        \/ RetrieveReturns(r)
        \/ RetrieveFails(r)
        \/ GenerateReturns(r)
        \/ GenerateFails(r)
        \/ SaveConversation(r)
        \/ SaveConversationFails(r)

RagSpec == RagInit /\ [][RagNext]_vars

----------------------------------------------------------------------------
(* Claims about the tools, ask_question and retrieval *)

\* the collaborator was called during the request of run r
WasCalled(r, name) == \E i \in DOMAIN called[r] : called[r][i] = name

ToolDone(r) == handler[r] \in ToolNames /\ pc[r] = "responded"

IsErrorString(out, cause) ==
    /\ out.kind = "return"
    /\ out.value[1] = "Error "
    /\ out.value[Len(out.value)] = cause

\* C11 as stated: each of the three tools returns a string for every input
\* and every failure of the store or the embedding backend, and every such
\* failure comes back as an 'Error ...: <cause>' string.
C11_EveryFailureIsAnErrorString ==
    \A r \in Runs :
        ToolDone(r) =>
            /\ tool_output[r].kind = "return"
            /\ \A cause \in fault[r] : IsErrorString(tool_output[r], cause)

\* C11 amended: each of the three tools returns a string and never raises;
\* a failure raised inside the tool body (the read of the documents table,
\* the embedding of the query) comes back as 'Error ...: <cause>', and a
\* failure of the similarity search, which get_relevant_chunks absorbs,
\* comes back as the 'No relevant sections found ...' string.
C11_ToolsAlwaysReturnAString ==
    \A r \in Runs :
        ToolDone(r) =>
            /\ tool_output[r].kind = "return"
            /\ tool_output[r].value # <<>>
            /\ exc[r] \in {"none", "EmbeddingError"}
            /\ \A cause \in fault[r] \ {"RetrievalError"} :
                  IsErrorString(tool_output[r], cause)
            /\ "RetrievalError" \in fault[r] =>
                  tool_output[r].value[1] = "No relevant sections found for query '"

C11_Witness ==
    \E r \in Runs :
        /\ ToolDone(r)
        /\ handler[r] = "semantic_search_document"
        /\ fault[r] = {"EmbeddingError"}
        /\ IsErrorString(tool_output[r], "EmbeddingError")

\* C12: when retrieval returns no chunks, ask_question answers with the
\* fixed no-information text and generate_answer is not called.
C12_NoChunksNoGeneration ==
    \A r \in Runs :
        (/\ handler[r] = "ask_question"
         /\ WasCalled(r, "get_relevant_chunks")
         /\ relevant_chunks[r] = <<>>) =>
            /\ pc[r] = "responded"
            /\ http[r] = Ok(NoInformation)
            /\ ~WasCalled(r, "generate_answer")

C12_Witness ==
    \E r \in Runs :
        /\ handler[r] = "ask_question"
        /\ pc[r] = "responded"
        /\ WasCalled(r, "get_relevant_chunks")
        /\ relevant_chunks[r] = <<>>
        /\ fault[r] = {}
        /\ http[r].answer = NoInformation

\* C13 as stated: when the embedding of the question fails, ask_question
\* answers with the fixed no-information text instead of failing.
C13_EmbeddingFailureDegrades ==
    \A r \in Runs :
        (/\ handler[r] = "ask_question"
         /\ pc[r] = "responded"
         /\ "EmbeddingError" \in fault[r]) =>
            http[r] = Ok(NoInformation)

GenerationFaults == {"GenerationError", "MalformedResponse"}

\* C14: generate_answer never raises: when the generation call fails or
\* its response is malformed it returns the fixed apology, and ask_question
\* (whose save then succeeds) returns the apology as the answer.
C14_GenerationFailureIsApology ==
    \A r \in Runs :
        (handler[r] = "ask_question" /\ WasCalled(r, "generate_answer")) =>
            /\ exc[r] \notin GenerationFaults
            /\ fault[r] \cap GenerationFaults # {} =>
                  /\ answer_text[r] = Apology
                  /\ (pc[r] = "responded" /\ "StoreError" \notin fault[r]) =>
                        http[r] = Ok(Apology)

C14_Witness ==
    \E r \in Runs :
        /\ handler[r] = "ask_question"
        /\ pc[r] = "responded"
        /\ "MalformedResponse" \in fault[r]
        /\ http[r] = Ok(Apology)

\* the stored row a returned text comes from
RowOfText(t) == CHOOSE row \in document_chunks : row.chunk_text = t

\* C18 as stated: get_relevant_chunks(doc, q, k) returns at most k texts,
\* all of chunks of doc, in descending similarity to q with equal
\* similarities in ascending chunk index.
C18_RankedByIndexOnTies ==
    \A r \in Runs :
        (WasCalled(r, "get_relevant_chunks") /\ relevant_chunks[r] # <<>>) =>
            LET cs == relevant_chunks[r]
                sim(i) == Similarity(RowOfText(cs[i]).embedding,
                                     query_embedding[r])
            IN  /\ Len(cs) <= top_k[r]
                /\ \A i \in DOMAIN cs :
                      /\ \E row \in document_chunks : row.chunk_text = cs[i]
                      /\ RowOfText(cs[i]).document_id = document_id[r]
                /\ \A i, j \in DOMAIN cs :
                      i < j =>
                         \/ sim(i) > sim(j)
                         \/ /\ sim(i) = sim(j)
                            /\ RowOfText(cs[i]).chunk_index
                                 < RowOfText(cs[j]).chunk_index

\* the outcome a caller takes when it has no relevant context
NoContextOutcome(r) ==
    CASE handler[r] = "ask_question" -> http[r] = Ok(NoInformation)
      [] handler[r] = "semantic_search" -> http[r] = OkResults(<<NoResults>>)
      [] handler[r] = "semantic_search_document" ->
            tool_output[r] =
               Returned(<<"No relevant sections found for query '", question[r],
                          "' in document ID: ", document_id[r]>>)
      [] OTHER -> tool_output[r] = NoToolOutput /\ http[r] = NoHttp

\* C19: get_relevant_chunks returns the empty list and does not raise when
\* the document has no stored chunks or the similarity call fails, and its
\* caller then takes its no-relevant-context outcome.
C19_RetrievalFailureIsEmpty ==
    \A r \in Runs :
        (/\ WasCalled(r, "get_relevant_chunks")
         /\ \/ RowsOfDocument(document_chunks, document_id[r]) = {}
            \/ "RetrievalError" \in fault[r]) =>
            /\ relevant_chunks[r] = <<>>
            /\ exc[r] = "none"
            /\ pc[r] = "responded"
            /\ NoContextOutcome(r)

C19_Witness ==
    \E r \in Runs :
        /\ handler[r] = "ask_question"
        /\ pc[r] = "responded"
        /\ "RetrievalError" \in fault[r]
        /\ RowsOfDocument(document_chunks, document_id[r]) # {}
        /\ http[r] = Ok(NoInformation)

\* the turn a request of run r is to leave in the log
TurnOf(r) ==
    [user_id |-> UserId, document_id |-> document_id[r],
     user_message |-> IF handler[r] = "ask_question"
                      THEN question[r] ELSE UserQuery,
     ai_response |-> http[r].answer]

\* C20 as stated: every ask_question or agent_query request that completes
\* with an answer has appended exactly one conversation turn (user,
\* document, question, answer), and no step changes or removes a turn.
C20_EveryAnswerIsLogged ==
    /\ [](\A r \in Runs :
            (/\ handler[r] \in {"ask_question", "none"}
             /\ pc[r] = "responded"
             /\ http[r].status = 200) =>
                conversations = <<TurnOf(r)>>)
    /\ [][/\ Len(conversations') >= Len(conversations)
          /\ SubSeq(conversations', 1, Len(conversations)) = conversations]_vars

----------------------------------------------------------------------------
(* Concurrent invocations of invoke_agent on the one GeminiAgentService     *)
(* (main.py:45).  The event loop switches between coroutines at an await,   *)
(* so the steps of the invocations interleave in any order.  chat,          *)
(* response, tool_calls_history, tool_args and document_id are locals or    *)
(* parameters of the coroutine (gemini_agent_service.py:116-136); self.model *)
(* and self.tools are only read.                                            *)

\* Bound: the invocations in flight
NumInvocations == 2
Invocations == 1..NumInvocations

\* among concurrent conversations the model asks for one of the calls
SingleCalls == {{c} : c \in ModelCalls}

ConcInit ==
    /\ pc = [r \in Invocations |-> "request"]
    /\ document_id \in [Invocations -> DocIds]
    /\ history = [r \in Invocations |-> <<>>]
    /\ response = [r \in Invocations |-> NoResponse]
    /\ tool_calls_history = [r \in Invocations |-> <<>>]
    /\ tool_args = [r \in Invocations |-> NoArgs]
    /\ outgoing = [r \in Invocations |-> NoMessage]
    /\ lastExec = [r \in Invocations |-> None]
    /\ result = [r \in Invocations |-> NoResult]
    /\ exc = [r \in Invocations |-> "none"]
    /\ http = [r \in Invocations |-> NoHttp]
    /\ conversations = <<>>
    /\ repertoire \in SingleCalls
    /\ RagIdle
    /\ document_chunks = {}
    /\ ChunkIdle
    /\ UploadIdle

ConcNext ==
    \E r \in Invocations :
        \/ AgentQuery(r)
        \/ SendCompletes(r)
        \/ SendFailsInTry(r)
        \/ SendRaises(r)
        \/ NoContent(r)
        \/ FinalText(r)
        \/ DispatchTool(r)
        \/ DispatchFails(r)
        \/ UnknownTool(r)
        \/ ToolReturns(r)
        \/ LimitReached(r)
        \/ LoopAgain(r)

ConcSpec == ConcInit /\ [][ConcNext]_vars

\* the locals of invocation r
LocalsOf(r) == <<pc[r], document_id[r], history[r], response[r],
                 tool_calls_history[r], tool_args[r], outgoing[r],
                 lastExec[r], result[r], exc[r]>>

\* the calls of its own conversation that invocation r has processed
OwnCalls(r) ==
    LET own == CallTurns(history[r])
    IN  IF LastCallUnprocessed(r) THEN SubSeq(own, 1, Len(own) - 1) ELSE own

\* C21: invocations of invoke_agent interleaved at every await share no
\* mutable state: a step of one leaves the locals of every other as they
\* were, a history grows only by its own invocation's message and the
\* model's answer to it, the tool_calls list an invocation returns holds
\* only the calls of its own conversation, and every tool it executes gets
\* its own document_id.
C21_InvocationsShareNothing ==
    /\ [](\A r \in Invocations :
            /\ Len(tool_calls_history[r]) = Len(OwnCalls(r))
            /\ \A i \in 1..Len(tool_calls_history[r]) :
                  /\ tool_calls_history[r][i].tool = OwnCalls(r)[i].name
                  /\ "document_id" \in DOMAIN tool_calls_history[r][i].args
                     /\ OwnCalls(r)[i].name \in ToolNames =>
                        tool_calls_history[r][i].args["document_id"] = document_id[r]
            /\ lastExec[r].kind = "call" =>
                  lastExec[r].args["document_id"] = document_id[r]
            /\ pc[r] = "done" =>
                  /\ result[r].tool_calls = tool_calls_history[r]
                  /\ result[r].final_prompt = history[r])
    /\ [][\A r \in Invocations :
            /\ LocalsOf(r)' # LocalsOf(r) =>
                  \A o \in Invocations \ {r} : LocalsOf(o)' = LocalsOf(o)
            /\ history'[r] # history[r] =>
                  \/ history'[r] = history[r] \o
                        <<UserTurn(outgoing[r]), ModelTurn(response'[r])>>
                  \/ pc[r] = "request" /\ history'[r] = <<>>]_vars

C21_Witness ==
    /\ \A r \in Invocations : pc[r] = "done" /\ lastExec[r].kind = "call"
    /\ document_id[1] # document_id[2]
    /\ lastExec[1].args["document_id"] # lastExec[2].args["document_id"]
    /\ Len(tool_calls_history[1]) # Len(tool_calls_history[2])

----------------------------------------------------------------------------
(* chunk_text: the chunk after the last full chunk *)

\* the text ends exactly where a full chunk ends
EndsOnFullChunk ==
    /\ Len(Encode(text)) >= max_tokens
    /\ (Len(Encode(text)) - max_tokens) % (max_tokens - overlap_tokens) = 0

\* C24: in tokenizer mode with 0 < overlap_tokens < max_tokens, when the
\* last token of the text completes a full chunk, chunk_text still emits one
\* more chunk, made of the last overlap_tokens tokens of the chunk before it
\* and of no new token; a text of exactly max_tokens tokens gives two
\* chunks.
C24_TrailingOverlapChunk ==
    (/\ chunk_pc = "output"
     /\ tokenizer
     /\ 0 < overlap_tokens
     /\ overlap_tokens < max_tokens
     /\ EndsOnFullChunk) =>
        LET n == Len(Encode(text))
            k == Len(chunks)
        IN  /\ k = (n - max_tokens) \div (max_tokens - overlap_tokens) + 2
            /\ Len(Encode(chunks[k - 1])) = max_tokens
            /\ Encode(chunks[k]) = SliceFromMinus(Encode(chunks[k - 1]), overlap_tokens)
            /\ Encode(chunks[k]) = SliceFromMinus(Encode(text), overlap_tokens)
            /\ Reassemble(SubSeq(chunks, 1, k - 1), 1, overlap_tokens) = Encode(text)
            /\ n = max_tokens => k = 2

C24_Witness ==
    /\ chunk_pc = "output"
    /\ tokenizer
    /\ 0 < overlap_tokens
    /\ EndsOnFullChunk
    /\ Len(Encode(text)) > max_tokens
    /\ Len(chunks) >= 3
    /\ Len(chunks[Len(chunks)]) = overlap_tokens

----------------------------------------------------------------------------
(* upload_pdf: the offsets of the entities (main.py:95-112) and             *)
(* DocumentProcessor.clean_text (document_processor.py:62-65)               *)

\* Bound
MaxEntities == 2

\* re.sub(r'\s+', ' ', text): every run of whitespace becomes one space
RECURSIVE CollapseFrom(_, _, _)
CollapseFrom(txt, i, out) ==
    IF i > Len(txt) THEN out
    ELSE IF txt[i] = Space /\ out # <<>> /\ out[Len(out)] = Space
         THEN CollapseFrom(txt, i + 1, out)
         ELSE CollapseFrom(txt, i + 1, Append(out, txt[i]))

\* str.strip() of a text whose whitespace runs are single spaces
Strip(txt) ==
    LET from == IF txt # <<>> /\ txt[1] = Space THEN 2 ELSE 1
        to == IF txt # <<>> /\ txt[Len(txt)] = Space THEN Len(txt) - 1 ELSE Len(txt)
    IN  SubSeq(txt, from, to)

CleanText(txt) == Strip(CollapseFrom(txt, 1, <<>>))

CleanedTexts == {CleanText(t) : t \in Texts}

\* sub occurs in s at the 0-based index i
OccursAt(s, sub, i) ==
    /\ i + Len(sub) <= Len(s)
    /\ SubSeq(s, i + 1, i + Len(sub)) = sub

RECURSIVE FindLastFrom(_, _, _)
FindLastFrom(s, sub, i) ==
    IF i < 0 THEN -1
    ELSE IF OccursAt(s, sub, i) THEN i
    ELSE FindLastFrom(s, sub, i - 1)

RECURSIVE FindFrom(_, _, _)
FindFrom(s, sub, i) ==
    IF i + Len(sub) > Len(s) THEN -1
    ELSE IF OccursAt(s, sub, i) THEN i
    ELSE FindFrom(s, sub, i + 1)

\* the offset of the last occurrence, as str.rfind gives it
FindLast(s, sub) == FindLastFrom(s, sub, Len(s))

\* line 103: str.find, the offset of the first occurrence or -1
Find(s, sub) == FindFrom(s, sub, 0)

\* what extract_entities can put in an entity: a missing key reads as None
\* (here the empty text, the empty label)
EntityTexts == {<<"a">>, <<"a", "b">>, <<>>}
EntityLabels == {"ORG", ""}
RawEntities == [text : EntityTexts, label : EntityLabels]
RawEntityLists == UNION {[1..n -> RawEntities] : n \in 0..MaxEntities}

\* Entity(text, label, start, end) and Entity(text, label)
EntityAt(txt, label, start) ==
    [text |-> txt, label |-> label, start |-> start, end |-> start + Len(txt)]
EntityWithoutOffsets(txt, label) == [text |-> txt, label |-> label]

\* lines 96-112, from the i-th raw entity on
RECURSIVE ProcessEntitiesFrom(_, _, _, _)
ProcessEntitiesFrom(cleaned_text, raw, i, out) ==
    IF i > Len(raw) THEN out
    ELSE LET text_to_find == raw[i].text
             label == raw[i].label
             start_idx == Find(cleaned_text, text_to_find)
         IN  IF text_to_find # <<>> /\ label # ""
             THEN IF start_idx # -1
                  THEN ProcessEntitiesFrom(cleaned_text, raw, i + 1,
                          Append(out, EntityAt(text_to_find, label, start_idx)))
                  ELSE ProcessEntitiesFrom(cleaned_text, raw, i + 1,
                          Append(out, EntityWithoutOffsets(text_to_find, label)))
             ELSE ProcessEntitiesFrom(cleaned_text, raw, i + 1, out)

ProcessEntities(cleaned_text, raw) ==
    ProcessEntitiesFrom(cleaned_text, raw, 1, <<>>)

\* lines 83 and 93 have run: a cleaned text and the extracted entities
EntityInit ==
    /\ pc = [r \in Runs |-> IF r = 1 THEN "entities" ELSE "idle"]
    /\ text \in CleanedTexts
    /\ raw_entities \in RawEntityLists
    /\ max_tokens = 0
    /\ overlap_tokens = 0
    /\ tokenizer = TRUE
    /\ chunks = <<>>
    /\ chunk_pc = "idle"
    /\ storage = {}
    /\ documents = {}
    /\ upload_summary = ""
    /\ processed_entities = <<>>
    /\ chunk_data_to_insert = <<>>
    /\ uploads = 1
    /\ document_id = [r \in Runs |-> "doc-42"]
    /\ exc = [r \in Runs |-> "none"]
    /\ http = [r \in Runs |-> NoHttp]
    /\ conversations = <<>>
    /\ AgentIdle
    /\ RagIdle
    /\ document_chunks = {}

\* lines 95-112
ProcessRawEntities(r) ==
    /\ pc[r] = "entities"
    /\ processed_entities' = ProcessEntities(text, raw_entities)
    /\ pc' = [pc EXCEPT ![r] = "entities_done"]
    /\ UNCHANGED <<storage, documents, upload_summary, raw_entities,
                   chunk_data_to_insert, uploads>>
    /\ UNCHANGED <<document_id, exc, http, conversations, agentVars, ragVars,
                   chunkVars>>

EntityNext == \E r \in Runs : ProcessRawEntities(r)

EntitySpec == EntityInit /\ [][EntityNext]_vars

\* the raw entities that have a text and a label, in their order
WithTextAndLabel(raw) ==
    SelectSeq(raw, LAMBDA ent : ent.text # <<>> /\ ent.label # "")

Occurrences(s, sub) == {i \in 0..Len(s) : OccursAt(s, sub, i)}

\* C23: every extracted entity with a text and a label is kept, in the
\* order extracted; its start is the offset of the first occurrence of its
\* text in the cleaned text and its end is start plus the length of the
\* text; when the text does not occur it has neither offset.  Repeated
\* mentions get the offsets of the first occurrence.
C23_OffsetsOfFirstOccurrence ==
    \A r \in Runs :
        pc[r] = "entities_done" =>
            LET kept == WithTextAndLabel(raw_entities)
            IN  /\ Len(processed_entities) = Len(kept)
                /\ \A i \in 1..Len(kept) :
                      LET ent == processed_entities[i]
                          occ == Occurrences(text, kept[i].text)
                      IN  /\ ent.text = kept[i].text
                          /\ ent.label = kept[i].label
                          /\ IF occ = {}
                             THEN DOMAIN ent = {"text", "label"}
                             ELSE /\ DOMAIN ent = {"text", "label", "start", "end"}
                                  /\ ent.start \in occ
                                  /\ \A o \in occ : ent.start <= o
                                  /\ ent.end = ent.start + Len(ent.text)

\* the same text mentioned twice, occurring twice in the cleaned text, and
\* an entity whose text does not occur
C23_Witness ==
    \E r \in Runs :
        /\ pc[r] = "entities_done"
        /\ Len(processed_entities) = 2
        /\ \/ /\ processed_entities[1] = processed_entities[2]
              /\ Cardinality(Occurrences(text, processed_entities[1].text)) = 2
              /\ processed_entities[1].start = 0
           \/ /\ DOMAIN processed_entities[1] = {"text", "label"}
              /\ "start" \in DOMAIN processed_entities[2]
              /\ processed_entities[2].start > 0

----------------------------------------------------------------------------
(* upload_pdf (main.py:63-148) with upload_pdf_to_storage,                  *)
(* insert_document_metadata and insert_document_chunks                      *)
(* (supabase_service.py:16-57, 59-105, 206-216)                             *)
(*                                                                          *)
(* Requests are served one after the other on one store.  chunk_text is     *)
(* called with its default max_tokens and overlap_tokens (500 and 50,       *)
(* document_processor.py:23); they stand here scaled down, overlap below    *)
(* max as there, so that a text of a few tokens gives several chunks.       *)

\* Bounds
MaxUploads == 2
UploadMaxTokens == 2
UploadOverlapTokens == 1

\* what extract_text_from_pdf gives for the uploaded files
UploadTexts == {<<>>, <<"a">>, <<"a", "b", Space>>, <<"a", "b", "a">>}

PdfName == "lease.pdf"
RejectedNames == {"", "notes.txt"}

\* f"documents/{user_id}/{file_name}"
StoragePath == <<"documents", UserId, PdfName>>

\* generate_summary returns the model's text or its fixed fallback
UploadSummaries == {"A lease between two parties.", "Failed to generate summary."}

\* extract_entities returns the parsed list, or [] on any failure
UploadEntityLists ==
    {<<>>, <<[text |-> <<"b">>, label |-> "ORG"],
             [text |-> <<"a", "a">>, label |-> "PERSON"]>>}

\* the ids the database gives to new 'documents' rows
GeneratedIds == <<"uuid-1", "uuid-2", "uuid-3", "uuid-4">>
NewDocumentId == GeneratedIds[Cardinality(documents) + 1]
NoDocumentId == "unset"

DocumentRow(id, path, summary, entities) ==
    [id |-> id, user_id |-> UserId, filename |-> PdfName,
     storage_path |-> path, summary |-> summary, entities |-> entities]

\* the index counted from 1
ChunkDataFromOne(i, chunk, embedding) ==
    [chunk_index |-> i, chunk_text |-> chunk, embedding |-> embedding]

\* lines 126-132: enumerate counts from 0; i is the position from 1
ChunkData(i, chunk, embedding) ==
    [chunk_index |-> i - 1, chunk_text |-> chunk, embedding |-> embedding]

\* supabase_service.py:210-212: every chunk gets the document_id, the
\* database gives every new row its id
StoredRows(doc, data, store) ==
    {[id |-> Cardinality(store) + i, document_id |-> doc,
      chunk_index |-> data[i].chunk_index, chunk_text |-> data[i].chunk_text,
      embedding |-> data[i].embedding] : i \in 1..Len(data)}

BadRequest(detail) == [status |-> 400, answer |-> "", detail |-> <<detail>>]

\* lines 135-140
UploadPDFResponse(doc, cleaned_text, summary, entities) ==
    [status |-> 200, answer |-> "", detail |-> <<>>, document_id |-> doc,
     extracted_text |-> cleaned_text, summary |-> summary, entities |-> entities]

\* lines 142-148
UploadFailure(r, cause) ==
    /\ exc' = [exc EXCEPT ![r] = cause]
    /\ http' = [http EXCEPT ![r] =
                  InternalServerError("Failed to process PDF", cause)]
    /\ pc' = [pc EXCEPT ![r] = "responded"]

UploadStates == {"upload_request", "upload_storage", "upload_gather",
                 "upload_metadata", "upload_embed", "upload_insert"}

\* the first upload request, on an empty store
UploadInit ==
    /\ pc = [r \in Runs |-> IF r = 1 THEN "upload_request" ELSE "idle"]
    /\ document_id = [r \in Runs |-> NoDocumentId]
    /\ exc = [r \in Runs |-> "none"]
    /\ http = [r \in Runs |-> NoHttp]
    /\ conversations = <<>>
    /\ text = <<>>
    /\ max_tokens = UploadMaxTokens
    /\ overlap_tokens = UploadOverlapTokens
    /\ tokenizer \in BOOLEAN
    /\ chunks = <<>>
    /\ chunk_pc = "idle"
    /\ storage = {}
    /\ documents = {}
    /\ upload_summary = ""
    /\ raw_entities = <<>>
    /\ processed_entities = <<>>
    /\ chunk_data_to_insert = <<>>
    /\ uploads = 1
    /\ document_chunks = {}
    /\ AgentIdle
    /\ RagIdle

\* lines 73-76: no file name, or not a .pdf name
RejectUpload(r) ==
    /\ pc[r] = "upload_request"
    /\ \E name \in RejectedNames :
          http' = [http EXCEPT ![r] =
                     IF name = ""
                     THEN BadRequest("No file name provided.")
                     ELSE BadRequest("Only PDF files are allowed.")]
    /\ pc' = [pc EXCEPT ![r] = "responded"]
    /\ UNCHANGED <<document_id, exc, conversations, agentVars, ragVars,
                   chunkVars, uploadVars>>

\* lines 79-86: the file is read, its text extracted and cleaned
ReadAndExtract(r) ==
    /\ pc[r] = "upload_request"
    /\ \E extracted_text \in UploadTexts : text' = CleanText(extracted_text)
    /\ pc' = [pc EXCEPT ![r] = "upload_storage"]
    /\ UNCHANGED <<max_tokens, overlap_tokens, tokenizer, chunks, chunk_pc>>
    /\ UNCHANGED <<document_id, exc, http, conversations, agentVars, ragVars,
                   uploadVars>>

\* line 82: PdfReader raises on the content
ExtractFails(r) ==
    /\ pc[r] = "upload_request"
    /\ UploadFailure(r, "PdfReadError")
    /\ UNCHANGED <<document_id, conversations, agentVars, ragVars,
                   chunkVars, uploadVars>>

\* line 86 resumes with the path; lines 90-93 start the two model calls
StorageReturns(r) ==
    /\ pc[r] = "upload_storage"
    /\ storage' = storage \cup {StoragePath}
    /\ pc' = [pc EXCEPT ![r] = "upload_gather"]
    /\ UNCHANGED <<documents, upload_summary, raw_entities, processed_entities,
                   chunk_data_to_insert, uploads>>
    /\ UNCHANGED <<document_id, exc, http, conversations, agentVars, ragVars,
                   chunkVars>>

\* supabase_service.py:55-57
StorageFails(r) ==
    /\ pc[r] = "upload_storage"
    /\ UploadFailure(r, "StorageError")
    /\ UNCHANGED <<document_id, conversations, agentVars, ragVars,
                   chunkVars, uploadVars>>

\* line 93 resumes; lines 95-112 build the entities; line 115 is awaited
GatherReturns(r) ==
    /\ pc[r] = "upload_gather"
    /\ \E summary \in UploadSummaries : upload_summary' = summary
    /\ \E raw \in UploadEntityLists :
          /\ raw_entities' = raw
          /\ processed_entities' = ProcessEntities(text, raw)
    /\ pc' = [pc EXCEPT ![r] = "upload_metadata"]
    /\ UNCHANGED <<storage, documents, chunk_data_to_insert, uploads>>
    /\ UNCHANGED <<document_id, exc, http, conversations, agentVars, ragVars,
                   chunkVars>>

\* line 98: the model's JSON is not a list of objects, ent.get raises
EntitiesMalformed(r) ==
    /\ pc[r] = "upload_gather"
    /\ UploadFailure(r, "AttributeError")
    /\ UNCHANGED <<document_id, conversations, agentVars, ragVars,
                   chunkVars, uploadVars>>

\* line 115 resumes with the new id; line 124 chunks the text; the first
\* embedding (line 127), or with no chunk the insert (line 133), is awaited
MetadataReturns(r) ==
    /\ pc[r] = "upload_metadata"
    /\ documents' = documents \cup
          {DocumentRow(NewDocumentId, StoragePath, upload_summary,
                       processed_entities)}
    /\ document_id' = [document_id EXCEPT ![r] = NewDocumentId]
    /\ chunks' = ChunkText(text, max_tokens, overlap_tokens, tokenizer)
    /\ chunk_data_to_insert' = <<>>
    /\ pc' = [pc EXCEPT ![r] =
                IF chunks' = <<>> THEN "upload_insert" ELSE "upload_embed"]
    /\ UNCHANGED <<text, max_tokens, overlap_tokens, tokenizer, chunk_pc>>
    /\ UNCHANGED <<storage, upload_summary, raw_entities, processed_entities,
                   uploads>>
    /\ UNCHANGED <<exc, http, conversations, agentVars, ragVars>>

\* supabase_service.py:102-105
MetadataFails(r) ==
    /\ pc[r] = "upload_metadata"
    /\ UploadFailure(r, "StoreError")
    /\ UNCHANGED <<document_id, conversations, agentVars, ragVars,
                   chunkVars, uploadVars>>

\* every chunk stored as soon as it is embedded
EmbedAndStoreChunk(r) ==
    LET i == Len(chunk_data_to_insert) + 1
    IN  /\ pc[r] = "upload_embed"
        /\ \E embedding \in Embeddings :
              /\ chunk_data_to_insert' =
                    Append(chunk_data_to_insert, ChunkData(i, chunks[i], embedding))
              /\ document_chunks' = document_chunks \cup
                    StoredRows(document_id[r],
                               <<ChunkData(i, chunks[i], embedding)>>,
                               document_chunks)
        /\ pc' = [pc EXCEPT ![r] =
                    IF i = Len(chunks) THEN "upload_insert" ELSE "upload_embed"]
        /\ UNCHANGED <<storage, documents, upload_summary, raw_entities,
                       processed_entities, uploads>>
        /\ UNCHANGED <<handler, question, top_k, query_embedding,
                       relevant_chunks, answer_text, called, fault, tool_output>>
        /\ UNCHANGED <<document_id, exc, http, conversations, agentVars,
                       chunkVars>>

\* line 127 resumes with the embedding of chunk i; lines 128-132
EmbedChunkReturns(r) ==
    LET i == Len(chunk_data_to_insert) + 1
    IN  /\ pc[r] = "upload_embed"
        /\ \E embedding \in Embeddings :
              chunk_data_to_insert' =
                 Append(chunk_data_to_insert, ChunkData(i, chunks[i], embedding))
        /\ pc' = [pc EXCEPT ![r] =
                    IF i = Len(chunks) THEN "upload_insert" ELSE "upload_embed"]
        /\ UNCHANGED <<storage, documents, upload_summary, raw_entities,
                       processed_entities, uploads>>
        /\ UNCHANGED <<document_id, exc, http, conversations, agentVars,
                       ragVars, chunkVars>>

\* gemini_service.py:101-103: the embedding of a chunk fails
EmbedChunkRaises(r) ==
    /\ pc[r] = "upload_embed"
    /\ UploadFailure(r, "EmbeddingError")
    /\ UNCHANGED <<document_id, conversations, agentVars, ragVars,
                   chunkVars, uploadVars>>

\* line 133 resumes: the one insert stored every chunk; lines 135-140
InsertChunksReturns(r) ==
    /\ pc[r] = "upload_insert"
    /\ document_chunks' = document_chunks \cup
          StoredRows(document_id[r], chunk_data_to_insert, document_chunks)
    /\ http' = [http EXCEPT ![r] =
                  UploadPDFResponse(document_id[r], text, upload_summary,
                                    processed_entities)]
    /\ pc' = [pc EXCEPT ![r] = "responded"]
    /\ UNCHANGED <<handler, question, top_k, query_embedding, relevant_chunks,
                   answer_text, called, fault, tool_output>>
    /\ UNCHANGED <<document_id, exc, conversations, agentVars, chunkVars,
                   uploadVars>>

\* supabase_service.py:214-216: the insert fails, no row is stored
InsertChunksFails(r) ==
    /\ pc[r] = "upload_insert"
    /\ UploadFailure(r, "StoreError")
    /\ UNCHANGED <<document_id, conversations, agentVars, ragVars,
                   chunkVars, uploadVars>>

\* the next upload request arrives: new locals, the same store
NextUpload(r) ==
    /\ pc[r] = "responded"
    /\ uploads < MaxUploads
    /\ uploads' = uploads + 1
    /\ pc' = [pc EXCEPT ![r] = "upload_request"]
    /\ document_id' = [document_id EXCEPT ![r] = NoDocumentId]
    /\ exc' = [exc EXCEPT ![r] = "none"]
    /\ http' = [http EXCEPT ![r] = NoHttp]
    /\ text' = <<>>
    /\ chunks' = <<>>
    /\ upload_summary' = ""
    /\ raw_entities' = <<>>
    /\ processed_entities' = <<>>
    /\ chunk_data_to_insert' = <<>>
    /\ UNCHANGED <<max_tokens, overlap_tokens, tokenizer, chunk_pc>>
    /\ UNCHANGED <<storage, documents>>
    /\ UNCHANGED <<conversations, agentVars, ragVars>>

UploadNext ==
    \E r \in Runs :
        \/ RejectUpload(r)
        \/ ReadAndExtract(r)
        \/ ExtractFails(r)
        \/ StorageReturns(r)
        \/ StorageFails(r)
        \/ GatherReturns(r)
        \/ EntitiesMalformed(r)
        \/ MetadataReturns(r)
        \/ MetadataFails(r)
        \/ EmbedChunkReturns(r)
        \/ EmbedChunkRaises(r)
        \/ InsertChunksReturns(r)
        \/ InsertChunksFails(r)
        \/ NextUpload(r)

UploadSpec == UploadInit /\ [][UploadNext]_vars

----------------------------------------------------------------------------
(* Claims about the stored chunks *)

StoredDocumentIds == {row.document_id : row \in document_chunks}

\* C22: after any sequence of uploads, successful or failed, the chunks
\* stored for a document carry the indices 0..n-1, each once, in the order
\* the chunker produced them, and every stored chunk belongs to exactly one
\* document.
C22_ChunkIndicesGapless ==
    /\ [](/\ \A d \in StoredDocumentIds :
               LET rows == RowsOfDocument(document_chunks, d)
               IN  /\ \A i \in 0..(Cardinality(rows) - 1) :
                         Cardinality({row \in rows : row.chunk_index = i}) = 1
                   /\ \E doc \in documents : doc.id = d
          /\ \A a, b \in document_chunks : a.id = b.id => a = b
          /\ \A a, b \in documents : a.id = b.id => a = b)
    /\ [][document_chunks' # document_chunks =>
            \E r \in Runs :
               LET new == document_chunks' \ document_chunks
               IN  /\ document_chunks \subseteq document_chunks'
                   /\ RowsOfDocument(document_chunks, document_id[r]) = {}
                   /\ Cardinality(new) = Len(chunks)
                   /\ \A row \in new :
                         /\ row.document_id = document_id[r]
                         /\ row.chunk_index \in 0..(Len(chunks) - 1)
                         /\ row.chunk_text = chunks[row.chunk_index + 1]]_vars

\* a failed upload and two stored documents, one of them with three chunks
C22_Witness ==
    /\ uploads = MaxUploads
    /\ \E r \in Runs : pc[r] = "responded" /\ http[r].status = 200
    /\ Cardinality(StoredDocumentIds) = 1
    /\ Cardinality(documents) = 2
    /\ Cardinality(document_chunks) = 3

\* C25: the chunks of an upload are stored by one insert, issued only after
\* every chunk has been embedded, and all together: when the embedding of a
\* chunk fails the upload ends in an error with no chunk stored for the
\* document, while the document row and the stored PDF written earlier in
\* the request stay in the store.
C25_ChunksAllOrNothing ==
    /\ [](\A r \in Runs :
            /\ pc[r] \in UploadStates =>
                  RowsOfDocument(document_chunks, document_id[r]) = {}
            /\ (pc[r] = "responded" /\ exc[r] = "EmbeddingError") =>
                  /\ http[r] = InternalServerError("Failed to process PDF",
                                                   "EmbeddingError")
                  /\ RowsOfDocument(document_chunks, document_id[r]) = {}
                  /\ \E doc \in documents :
                        /\ doc.id = document_id[r]
                        /\ doc.storage_path \in storage)
    /\ [][document_chunks' # document_chunks =>
            \E r \in Runs :
               /\ pc[r] = "upload_insert"
               /\ pc'[r] = "responded"
               /\ Len(chunk_data_to_insert) = Len(chunks)
               /\ Cardinality(RowsOfDocument(document_chunks', document_id[r]))
                    = Len(chunks)]_vars

\* the embedding of a later chunk fails after an earlier one succeeded
C25_Witness ==
    \E r \in Runs :
        /\ pc[r] = "responded"
        /\ exc[r] = "EmbeddingError"
        /\ Len(chunk_data_to_insert) >= 1
        /\ Len(chunk_data_to_insert) < Len(chunks)
        /\ \E doc \in documents : doc.id = document_id[r]

=============================================================================
